---------------------------- MODULE Spec2Model ----------------------------
(***************************************************************************)
(* Model of validar_dados.py: the CPF check-digit validator, the e-mail    *)
(* validator, the Pandera schema run by validar_dados, the partition into  *)
(* valid and invalid rows, the error report and the summary printed by     *)
(* main.                                                                   *)
(*                                                                         *)
(* Strings are sequences of one-character strings.  A spreadsheet cell is  *)
(* a record [t, s, n]: t = "nulo" (NaN), "str" (text s), "num" (number n)  *)
(* or "ausente" (the column does not exist in the sheet).  Monetary values *)
(* are counted in cents.                                                   *)
(***************************************************************************)
EXTENDS Integers, Sequences, FiniteSets, TLC

VARIABLES
    pc,             \* position of the run
    cpf_in,         \* argument of validar_cpf_individual
    cpf_out,        \* its return value
    email_in,       \* argument of validar_email_individual
    email_out,      \* its return value
    edicoes,        \* number of edits applied to email_in
    df,             \* the rows read from the spreadsheet
    colunas,        \* the column names present in the spreadsheet
    dados_validos,  \* first element of validar_dados' result
    erros,          \* second element of validar_dados' result
    relogio,        \* last wall-clock reading
    relatorio,      \* the report file written by gerar_relatorio_erros
    resumo,         \* the summary printed by main
    arquivo_validos,\* the valid-rows spreadsheet written by main
    revalidacao,    \* result of validar_dados on the saved valid rows
    relatorio2      \* a second report written from the same erros

vars == <<pc, cpf_in, cpf_out, email_in, email_out, edicoes, df, colunas,
          dados_validos, erros, relogio, relatorio, resumo, arquivo_validos,
          revalidacao, relatorio2>>

(***************************************************************************)
(* Bounds of the model.                                                    *)
(***************************************************************************)
\* rows in a spreadsheet
MaxLinhas == 2
\* largest wall-clock reading
MaxRelogio == 1
\* number of freely chosen digits at the end of the nine-digit CPF body
NLivres == 1
\* edits applied to a seed e-mail
MaxEdicoes == 2

(***************************************************************************)
(* Cells and characters.                                                   *)
(***************************************************************************)
Nulo == [t |-> "nulo", s |-> <<>>, n |-> 0]
Ausente == [t |-> "ausente", s |-> <<>>, n |-> 0]
Str(s) == [t |-> "str", s |-> s, n |-> 0]
Num(n) == [t |-> "num", s |-> <<>>, n |-> n]

\* pd.isna / pd.notna on a cell
isna(v) == v.t = "nulo"

Digitos == {"0", "1", "2", "3", "4", "5", "6", "7", "8", "9"}
Minusculas == {"a", "b", "c", "m", "n", "o"}
Maiusculas == {"A", "Z"}
Brancos == {" ", "\n", "\t"}

\* int(digito) for a digit character
int(c) ==
    CASE c = "0" -> 0 [] c = "1" -> 1 [] c = "2" -> 2 [] c = "3" -> 3
      [] c = "4" -> 4 [] c = "5" -> 5 [] c = "6" -> 6 [] c = "7" -> 7
      [] c = "8" -> 8 [] c = "9" -> 9

\* the digit character of a number 0..9
chr(d) == CHOOSE c \in Digitos : int(c) = d

\* str.strip(): leading and trailing whitespace removed
RECURSIVE lstrip(_)
lstrip(s) ==
    IF s # <<>> /\ Head(s) \in Brancos THEN lstrip(Tail(s)) ELSE s

RECURSIVE rstrip(_)
rstrip(s) ==
    IF s # <<>> /\ s[Len(s)] \in Brancos
    THEN rstrip(SubSeq(s, 1, Len(s) - 1))
    ELSE s

strip(s) == rstrip(lstrip(s))

\* str(x) of a cell: text as is, NaN as 'nan'
str(v) == IF v.t = "str" THEN v.s ELSE <<"n", "a", "n">>

(***************************************************************************)
(* _calcular_digito_verificador and validar_cpf_individual.                *)
(***************************************************************************)
\* the loop of _calcular_digito_verificador: soma after the first k digits
RECURSIVE soma_ate(_, _)
soma_ate(cpf_parcial, k) ==
    IF k = 0 THEN 0
    ELSE soma_ate(cpf_parcial, k - 1)
         + int(cpf_parcial[k]) * (Len(cpf_parcial) + 1 - (k - 1))

\* mutant: the digit is left out of the product
calcular_digito_sem_digito(cpf_parcial) ==
    LET resto == ((Len(cpf_parcial) * (Len(cpf_parcial) + 3)) \div 2) % 11
    IN  IF resto < 2 THEN 0 ELSE 11 - resto

\* mutant: only remainder 0 maps to check digit 0
calcular_digito_resto_zero(cpf_parcial) ==
    LET resto == soma_ate(cpf_parcial, Len(cpf_parcial)) % 11
    IN  IF resto < 1 THEN 0 ELSE 11 - resto

calcular_digito_verificador(cpf_parcial) ==
    LET resto == soma_ate(cpf_parcial, Len(cpf_parcial)) % 11
    IN  IF resto < 2 THEN 0 ELSE 11 - resto

\* re.sub(r'\D', '', s)
so_digitos(s) == SelectSeq(s, LAMBDA c : c \in Digitos)

validar_cpf_individual(cpf) ==
    LET cpf_str == strip(str(cpf))
        cpf_limpo == so_digitos(cpf_str)
    IN  IF isna(cpf) \/ cpf_str = <<>> \/ cpf_str = <<"n", "a", "n">>
        THEN FALSE
        ELSE IF Len(cpf_limpo) # 11
        THEN FALSE
        ELSE IF \A i \in 1..11 : cpf_limpo[i] = cpf_limpo[1]
        THEN FALSE
        ELSE IF calcular_digito_verificador(SubSeq(cpf_limpo, 1, 9))
                    # int(cpf_limpo[10])
        THEN FALSE
        ELSE IF calcular_digito_verificador(SubSeq(cpf_limpo, 1, 10))
                    # int(cpf_limpo[11])
        THEN FALSE
        ELSE TRUE

(***************************************************************************)
(* validar_email_individual.                                               *)
(***************************************************************************)
Letras == Minusculas \cup Maiusculas
Alfanumericos == Letras \cup Digitos
\* [a-zA-Z0-9._%+-]
ClasseLocal == Alfanumericos \cup {".", "_", "%", "+", "-"}
\* [a-zA-Z0-9.-]
ClasseDominio == Alfanumericos \cup {".", "-"}

todos_em(s, a, b, classe) == \A k \in a..b : s[k] \in classe

\* the positions where '$' matches: the end of the string, and just before
\* a newline that is the last character
fins(s) ==
    {Len(s)} \cup (IF s # <<>> /\ s[Len(s)] = "\n" THEN {Len(s) - 1} ELSE {})

\* re.match(r'^[a-zA-Z0-9._%+-]+@[a-zA-Z0-9.-]+\.[a-zA-Z]{2,}$', s):
\* arroba is the position of '@', ponto the position of the last '\.'
casa_padrao(s) ==
    \E fim \in fins(s) :
    \E arroba \in 2..fim :
    \E ponto \in (arroba + 2)..(fim - 2) :
        /\ todos_em(s, 1, arroba - 1, ClasseLocal)
        /\ s[arroba] = "@"
        /\ todos_em(s, arroba + 1, ponto - 1, ClasseDominio)
        /\ s[ponto] = "."
        /\ todos_em(s, ponto + 1, fim, Letras)

validar_email_individual(email) ==
    IF \/ isna(email)
       \/ strip(str(email)) = <<>>
       \/ strip(str(email)) = <<"n", "a", "n">>
    THEN FALSE
    ELSE casa_padrao(str(email))

(***************************************************************************)
(* Values the other variables hold while one function is exercised.        *)
(***************************************************************************)
RelatorioVazio == [escrito |-> FALSE, data_hora |-> 0, total |-> 0,
                   secoes |-> <<>>]
ResultadoVazio == [feito |-> FALSE, validos |-> <<>>, erros |-> <<>>]
ArquivoVazio == [escrito |-> FALSE, linhas |-> <<>>]

(***************************************************************************)
(* The Pandera schema and schema.validate(df, lazy=True).                  *)
(***************************************************************************)
schema ==
    <<[name |-> "nome", dtype |-> "str",
       checks |-> <<[tipo |-> "str_length", min_value |-> 1,
                     max_value |-> 255, error |-> "str_length(1, 255)"]>>],
      [name |-> "cpf", dtype |-> "str",
       checks |-> <<[tipo |-> "validar_cpf", min_value |-> 0,
                     max_value |-> 0, error |-> "CPF invalido"]>>],
      [name |-> "email", dtype |-> "str",
       checks |-> <<[tipo |-> "validar_email", min_value |-> 0,
                     max_value |-> 0, error |-> "Email invalido"]>>],
      [name |-> "valor_contrato", dtype |-> "float",
       checks |-> <<[tipo |-> "greater_than_or_equal_to", min_value |-> 0,
                     max_value |-> 0,
                     error |-> "Valor do contrato nao pode ser negativo"]>>],
      [name |-> "idade", dtype |-> "int",
       checks |-> <<[tipo |-> "greater_than_or_equal_to", min_value |-> 1,
                     max_value |-> 0,
                     error |-> "Idade deve ser maior ou igual a 1"],
                    [tipo |-> "less_than_or_equal_to", min_value |-> 0,
                     max_value |-> 150,
                     error |-> "Idade deve ser menor ou igual a 100 anos"]>>]>>

Campos == {schema[k].name : k \in 1..Len(schema)}

\* one row of e.failure_cases
Falha(index, column, check, failure_case) ==
    [index |-> index, column |-> column, check |-> check,
     failure_case |-> failure_case]

\* the value of a text of decimal digits
RECURSIVE valor_decimal(_)
valor_decimal(s) ==
    IF s = <<>> THEN 0
    ELSE 10 * valor_decimal(SubSeq(s, 1, Len(s) - 1)) + int(s[Len(s)])

\* the decimal digits of a number >= 0
RECURSIVE texto_decimal(_)
texto_decimal(n) ==
    IF n < 10 THEN <<chr(n)>>
    ELSE texto_decimal(n \div 10) \o <<chr(n % 10)>>

numerico(s) == s # <<>> /\ \A k \in 1..Len(s) : s[k] \in Digitos

\* whether one cell converts to the column's dtype: anything converts to
\* str; NaN is a float but not an int; a text converts to a number when it
\* is numeric (the inputs hold unsigned decimal texts and non-numeric ones)
coercivel(dtype, v) ==
    CASE dtype = "str" -> TRUE
      [] dtype = "float" -> v.t \in {"num", "nulo"} \/ (v.t = "str" /\ numerico(v.s))
      [] dtype = "int" -> v.t = "num" \/ (v.t = "str" /\ numerico(v.s))

\* the converted cell; NaN stays NaN
coagir(dtype, v) ==
    CASE v.t = "nulo" -> v
      [] dtype = "str" /\ v.t = "num" -> Str(texto_decimal(v.n))
      [] dtype # "str" /\ v.t = "str" -> Num(valor_decimal(v.s))
      [] OTHER -> v

\* a column of the frame
serie_de(dfx, c) == [i \in 1..Len(dfx) |-> dfx[i][c]]

\* the rows i of a series with ruim(serie[i]), each turned into a failure
falhas_por_linha(serie, ruim(_), falha(_)) ==
    LET linhas == SelectSeq([i \in 1..Len(serie) |-> i],
                            LAMBDA i : ruim(serie[i]))
    IN  [k \in 1..Len(linhas) |-> falha(linhas[k])]

\* the column after coerce_dtype: converted as a whole, or left as it was
\* when some cell does not convert
coerce_dtype(col, serie) ==
    IF \A i \in 1..Len(serie) : coercivel(col.dtype, serie[i])
    THEN [i \in 1..Len(serie) |-> coagir(col.dtype, serie[i])]
    ELSE serie

\* the failure cases of a failed coerce_dtype: the cells that do not convert
falhas_coercao(col, serie) ==
    falhas_por_linha(serie, LAMBDA v : ~coercivel(col.dtype, v),
        LAMBDA i : Falha(Num(i - 1), col.name, "coerce_dtype", serie[i]))

\* nullable=False
check_nullable(col, serie) ==
    falhas_por_linha(serie, isna,
        LAMBDA i : Falha(Num(i - 1), col.name, "not_nullable", Nulo))

\* the dtype check: a column that did not convert has the wrong dtype; the
\* failure case is the dtype, it belongs to no row
check_dtype(col, serie) ==
    IF \A i \in 1..Len(serie) : coercivel(col.dtype, serie[i])
    THEN <<>>
    ELSE <<Falha(Nulo, col.name, "dtype", Str(<<"object">>))>>

\* one check on one non-null cell of a converted column
check_ok(check, v) ==
    CASE check.tipo = "str_length" ->
            check.min_value <= Len(v.s) /\ Len(v.s) <= check.max_value
      [] check.tipo = "validar_cpf" -> validar_cpf_individual(v)
      [] check.tipo = "validar_email" -> validar_email_individual(v)
      [] check.tipo = "greater_than_or_equal_to" -> v.n >= check.min_value
      [] check.tipo = "less_than_or_equal_to" -> v.n <= check.max_value

\* a numeric comparison on a column that still holds text raises TypeError
check_levanta_erro(col, serie) ==
    /\ col.dtype \in {"int", "float"}
    /\ \E i \in 1..Len(serie) : serie[i].t = "str"

\* one Check on the column, nulls ignored: a failure per failing row, or a
\* single failure without row when the check raises
run_check(col, check, serie) ==
    IF check_levanta_erro(col, serie)
    THEN <<Falha(Nulo, col.name, check.error, Str(<<"TypeError">>))>>
    ELSE falhas_por_linha(serie,
            LAMBDA v : ~isna(v) /\ ~check_ok(check, v),
            LAMBDA i : Falha(Num(i - 1), col.name, check.error, serie[i]))

RECURSIVE run_checks(_, _, _)
run_checks(col, k, serie) ==
    IF k > Len(col.checks) THEN <<>>
    ELSE run_check(col, col.checks[k], serie) \o run_checks(col, k + 1, serie)

\* the column component: nullable, dtype, then the checks in order
validar_coluna(col, serie) ==
    check_nullable(col, serie) \o check_dtype(col, serie)
        \o run_checks(col, 1, serie)

\* the frame after the schema's coercion, column by column
coagir_frame(dfx, cols) ==
    [i \in 1..Len(dfx) |->
        [c \in DOMAIN dfx[i] |->
            IF c \in cols /\ \E k \in 1..Len(schema) : schema[k].name = c
            THEN LET col == schema[CHOOSE k \in 1..Len(schema) : schema[k].name = c]
                 IN  coerce_dtype(col, serie_de(dfx, c))[i]
            ELSE dfx[i][c]]]

RECURSIVE erros_coercao(_, _, _)
erros_coercao(dfx, cols, k) ==
    IF k > Len(schema) THEN <<>>
    ELSE (IF schema[k].name \in cols
          THEN falhas_coercao(schema[k], serie_de(dfx, schema[k].name))
          ELSE <<>>) \o erros_coercao(dfx, cols, k + 1)

\* a required column missing from the frame: a failure without row
RECURSIVE erros_presenca(_, _)
erros_presenca(cols, k) ==
    IF k > Len(schema) THEN <<>>
    ELSE (IF schema[k].name \in cols
          THEN <<>>
          ELSE <<Falha(Nulo, "", "column_in_dataframe",
                       Str(<<schema[k].name>>))>>)
         \o erros_presenca(cols, k + 1)

RECURSIVE erros_componentes(_, _, _)
erros_componentes(dfx, cols, k) ==
    IF k > Len(schema) THEN <<>>
    ELSE (IF schema[k].name \in cols
          THEN validar_coluna(schema[k], serie_de(dfx, schema[k].name))
          ELSE <<>>) \o erros_componentes(dfx, cols, k + 1)

\* schema.validate(df, lazy=True): the converted frame, and the failure
\* cases of the SchemaErrors it raises (none: it returns the frame)
schema_validate(dfx, cols) ==
    LET convertido == coagir_frame(dfx, cols)
    IN  [data |-> convertido,
         failure_cases |->
            erros_coercao(dfx, cols, 1) \o erros_presenca(cols, 1)
                \o erros_componentes(convertido, cols, 1)]

(***************************************************************************)
(* validar_dados.                                                          *)
(***************************************************************************)
\* the rows of a frame with their index 0, 1, ...
com_indice(dfx) == [i \in 1..Len(dfx) |-> [index |-> i - 1, reg |-> dfx[i]]]

\* erros_df[erros_df['index'].notna()]
filtrar_indice(failure_cases) ==
    SelectSeq(failure_cases, LAMBDA f : ~isna(f.index))

\* set(erros_df['index'].unique())
linhas_com_erro_de(erros_df) ==
    {erros_df[k].index.n : k \in 1..Len(erros_df)}

\* mutant: the negation is left out
separar_sem_negacao(dfx, linhas_com_erro) ==
    SelectSeq(com_indice(dfx), LAMBDA r : r.index \in linhas_com_erro)

\* df[~df.index.isin(linhas_com_erro)]
separar_validos(dfx, linhas_com_erro) ==
    SelectSeq(com_indice(dfx), LAMBDA r : r.index \notin linhas_com_erro)

validar_dados(dfx, cols) ==
    LET v == schema_validate(dfx, cols)
    IN  IF v.failure_cases = <<>>
        THEN [feito |-> TRUE, validos |-> com_indice(v.data), erros |-> <<>>]
        ELSE LET erros_df == filtrar_indice(v.failure_cases)
                 linhas_com_erro == linhas_com_erro_de(erros_df)
             IN  [feito |-> TRUE,
                  validos |-> separar_validos(dfx, linhas_com_erro),
                  erros |-> erros_df]

(***************************************************************************)
(* gerar_relatorio_erros and the summary of main.                          *)
(***************************************************************************)
\* the keys of erros.groupby('index'), ascending
RECURSIVE chaves_ordenadas(_)
chaves_ordenadas(S) ==
    IF S = {} THEN <<>>
    ELSE LET m == CHOOSE x \in S : \A y \in S : x <= y
         IN  <<m>> \o chaves_ordenadas(S \ {m})

\* the lines written for one row of a group: Campo, Erro and, when the
\* failure case is not NaN, Valor
item_de(erro) ==
    [campo |-> erro.column, erro |-> erro.check,
     valor |-> IF ~isna(erro.failure_case) THEN <<erro.failure_case>> ELSE <<>>]

\* mutant: LINHA idx + 1, the header row is not counted
secao_sem_cabecalho(erros_df, idx) ==
    LET grupo == SelectSeq(erros_df, LAMBDA f : f.index.n = idx)
    IN  [linha |-> idx + 1,
         itens |-> [k \in 1..Len(grupo) |-> item_de(grupo[k])]]

\* the section of one group: LINHA idx + 2 and the rows of the group in
\* the order they have in erros
secao_de(erros_df, idx) ==
    LET grupo == SelectSeq(erros_df, LAMBDA f : f.index.n = idx)
    IN  [linha |-> idx + 2,
         itens |-> [k \in 1..Len(grupo) |-> item_de(grupo[k])]]

\* the body of the report, one section per group
secoes_de(erros_df) ==
    LET chaves == chaves_ordenadas(linhas_com_erro_de(erros_df))
    IN  [k \in 1..Len(chaves) |-> secao_de(erros_df, chaves[k])]

\* mutant: the time of writing is repeated in every section
gerar_relatorio_hora_nas_secoes(erros_df, agora) ==
    [escrito |-> TRUE, data_hora |-> agora, total |-> Len(erros_df),
     secoes |-> [k \in 1..Len(secoes_de(erros_df)) |->
                    [linha |-> secoes_de(erros_df)[k].linha,
                     itens |-> secoes_de(erros_df)[k].itens,
                     hora |-> agora]]]

\* the file written by gerar_relatorio_erros; agora is the reading of
\* datetime.now() it makes for the header
gerar_relatorio_erros(erros_df, agora) ==
    [escrito |-> TRUE, data_hora |-> agora, total |-> Len(erros_df),
     secoes |-> secoes_de(erros_df)]

\* the keys of erros.groupby('column'), which groupby sorts
OrdemAlfabetica == <<"cpf", "email", "idade", "nome", "valor_contrato">>

\* erros.groupby('column').size()
contagem_por_coluna(erros_df) ==
    LET conta(c) == Len(SelectSeq(erros_df, LAMBDA f : f.column = c))
        presentes == SelectSeq(OrdemAlfabetica, LAMBDA c : conta(c) > 0)
    IN  [k \in 1..Len(presentes) |->
            [campo |-> presentes[k], quantidade |-> conta(presentes[k])]]

\* mutant: ascending=False is left out
ordenacoes_crescentes(contagem) ==
    {r \in {[k \in 1..Len(contagem) |-> contagem[f[k]]] :
                f \in Permutations(1..Len(contagem))} :
        \A k \in 1..(Len(r) - 1) : r[k].quantidade <= r[k + 1].quantidade}

\* .sort_values(ascending=False): the default sort is not stable, so equal
\* counts may come out in any order
ordenacoes(contagem) ==
    {r \in {[k \in 1..Len(contagem) |-> contagem[f[k]]] :
                f \in Permutations(1..Len(contagem))} :
        \A k \in 1..(Len(r) - 1) : r[k].quantidade >= r[k + 1].quantidade}

(***************************************************************************)
(* Inputs of validar_cpf_individual.                                       *)
(***************************************************************************)
\* the digit characters of a sequence of numbers
texto(ds) == [i \in 1..Len(ds) |-> chr(ds[i])]

\* ddd.ddd.ddd-dd
pontuado(s) ==
    SubSeq(s, 1, 3) \o <<".">> \o SubSeq(s, 4, 6) \o <<".">>
        \o SubSeq(s, 7, 9) \o <<"-">> \o SubSeq(s, 10, 11)

\* the body 111444777 with its last NLivres digits free
CorpoBase == <<1, 1, 1, 4, 4, 4, 7, 7, 7>>
Corpos ==
    {SubSeq(CorpoBase, 1, 9 - NLivres) \o livres :
        livres \in [1..NLivres -> 0..9]}

\* every body with every pair of trailing digits
Onze == {texto(c \o <<c1, c2>>) : c \in Corpos, c1 \in 0..9, c2 \in 0..9}

Repetidos == {[i \in 1..11 |-> chr(d)] : d \in 0..9}

OutrasEntradasCpf ==
    {<<>>, <<" ", " ">>, <<"n", "a", "n">>,
     texto(<<1, 1, 1, 4, 4, 4, 7, 7, 7>>),
     texto(<<1, 1, 1, 4, 4, 4, 7, 7, 7, 3>>),
     texto(<<1, 1, 1, 4, 4, 4, 7, 7, 7, 3, 5, 0>>),
     <<" ">> \o pontuado(texto(<<1, 1, 1, 4, 4, 4, 7, 7, 7, 3, 5>>)) \o <<"\n">>,
     <<"a">> \o texto(<<1, 1, 1, 4, 4, 4, 7, 7, 7, 3, 5>>) \o <<"b">>,
     texto(<<5, 2, 9, 9, 8, 2, 2, 4, 7, 2, 5>>),
     texto(<<2, 3, 2, 5, 7, 1, 8, 3, 1, 0, 0>>)}

EntradasCpf ==
    {Nulo} \cup {Str(s) : s \in Onze}
           \cup {Str(pontuado(s)) : s \in Onze \cup Repetidos}
           \cup {Str(s) : s \in Repetidos \cup OutrasEntradasCpf}

(***************************************************************************)
(* Exercising validar_cpf_individual on every input of EntradasCpf.        *)
(***************************************************************************)
InitCpf ==
    /\ pc = "cpf"
    /\ cpf_in \in EntradasCpf
    /\ cpf_out = FALSE
    /\ email_in = Nulo
    /\ email_out = FALSE
    /\ edicoes = 0
    /\ df = <<>>
    /\ colunas = {}
    /\ dados_validos = <<>>
    /\ erros = <<>>
    /\ relogio = 0
    /\ relatorio = RelatorioVazio
    /\ resumo = <<>>
    /\ arquivo_validos = ArquivoVazio
    /\ revalidacao = ResultadoVazio
    /\ relatorio2 = RelatorioVazio

ValidarCpf ==
    /\ pc = "cpf"
    /\ cpf_out' = validar_cpf_individual(cpf_in)
    /\ pc' = "cpf_validado"
    /\ UNCHANGED <<cpf_in, email_in, email_out, edicoes, df, colunas,
                   dados_validos, erros, relogio, relatorio, resumo,
                   arquivo_validos, revalidacao, relatorio2>>

NextCpf == ValidarCpf

SpecCpf == InitCpf /\ [][NextCpf]_vars

(***************************************************************************)
(* The spreadsheets given to main.                                         *)
(***************************************************************************)
Bom ==
    [nome |-> Str(<<"A", "n", "a">>),
     cpf |-> Str(pontuado(texto(<<1, 1, 1, 4, 4, 4, 7, 7, 7, 3, 5>>))),
     email |-> Str(<<"a", "@", "b", ".", "c", "o", "m">>),
     valor_contrato |-> Num(0),
     idade |-> Num(150)]

NomeLongo == Str([i \in 1..256 |-> "a"])
CpfRepetido == Str(pontuado(texto(<<1, 1, 1, 1, 1, 1, 1, 1, 1, 1, 1>>)))
EmailSemTld == Str(<<"a", "@", "b">>)
TextoAbc == Str(<<"a", "b", "c">>)

Registros ==
    {Bom,
     [Bom EXCEPT !.nome = Nulo],
     [Bom EXCEPT !.nome = NomeLongo],
     [Bom EXCEPT !.cpf = CpfRepetido],
     [Bom EXCEPT !.email = EmailSemTld],
     [Bom EXCEPT !.valor_contrato = Num(-1)],
     [Bom EXCEPT !.valor_contrato = TextoAbc],
     [Bom EXCEPT !.idade = Num(0)],
     [Bom EXCEPT !.idade = Num(151)],
     [Bom EXCEPT !.idade = Nulo],
     [Bom EXCEPT !.idade = TextoAbc],
     [Bom EXCEPT !.idade = Str(<<"1", "5", "1">>)],
     [Bom EXCEPT !.email = EmailSemTld, !.idade = Num(151)],
     [Bom EXCEPT !.cpf = CpfRepetido, !.valor_contrato = Num(-1)]}

Lotes == UNION {[1..n -> Registros] : n \in 0..MaxLinhas}

\* the frame read from a sheet that lacks the columns in ausentes
sem_colunas(lote, ausentes) ==
    [i \in 1..Len(lote) |->
        [c \in DOMAIN lote[i] |-> IF c \in ausentes THEN Ausente ELSE lote[i][c]]]

(***************************************************************************)
(* main, step by step, followed by a second validation of the saved valid  *)
(* rows and a second writing of the report.                                *)
(***************************************************************************)
Init ==
    /\ pc = "inicio"
    /\ \E lote \in Lotes, ausentes \in {{}} \cup {{c} : c \in Campos} :
          /\ df = sem_colunas(lote, ausentes)
          /\ colunas = Campos \ ausentes
    /\ dados_validos = <<>>
    /\ erros = <<>>
    /\ relogio = 0
    /\ relatorio = RelatorioVazio
    /\ resumo = <<>>
    /\ arquivo_validos = ArquivoVazio
    /\ revalidacao = ResultadoVazio
    /\ relatorio2 = RelatorioVazio
    /\ cpf_in = Nulo
    /\ cpf_out = FALSE
    /\ email_in = Nulo
    /\ email_out = FALSE
    /\ edicoes = 0

validadores == <<cpf_in, cpf_out, email_in, email_out, edicoes>>

\* dados_validos, erros = validar_dados(str(arquivo_entrada))
ValidarDados ==
    /\ pc = "inicio"
    /\ LET r == validar_dados(df, colunas)
       IN  /\ dados_validos' = r.validos
           /\ erros' = r.erros
    /\ pc' = "validado"
    /\ UNCHANGED <<df, colunas, relogio, relatorio, resumo, arquivo_validos,
                   revalidacao, relatorio2, validadores>>

\* if not erros.empty: the report is written and the summary printed
GerarRelatorio ==
    /\ pc = "validado"
    /\ erros # <<>>
    /\ \E agora \in relogio..MaxRelogio :
          /\ relogio' = agora
          /\ relatorio' = gerar_relatorio_erros(erros, agora)
    /\ resumo' \in ordenacoes(contagem_por_coluna(erros))
    /\ pc' = "relatado"
    /\ UNCHANGED <<df, colunas, dados_validos, erros, arquivo_validos,
                   revalidacao, relatorio2, validadores>>

\* erros.empty: nothing is written
SemRelatorio ==
    /\ pc = "validado"
    /\ erros = <<>>
    /\ pc' = "relatado"
    /\ UNCHANGED <<df, colunas, dados_validos, erros, relogio, relatorio,
                   resumo, arquivo_validos, revalidacao, relatorio2,
                   validadores>>

\* if not dados_validos.empty: to_excel(..., index=False)
SalvarValidos ==
    /\ pc = "relatado"
    /\ dados_validos # <<>>
    /\ arquivo_validos' =
          [escrito |-> TRUE,
           linhas |-> [k \in 1..Len(dados_validos) |-> dados_validos[k].reg]]
    /\ pc' = "fim"
    /\ UNCHANGED <<df, colunas, dados_validos, erros, relogio, relatorio,
                   resumo, revalidacao, relatorio2, validadores>>

\* dados_validos.empty: "Nenhum registro valido foi encontrado!"
NenhumValido ==
    /\ pc = "relatado"
    /\ dados_validos = <<>>
    /\ pc' = "fim"
    /\ UNCHANGED <<df, colunas, dados_validos, erros, relogio, relatorio,
                   resumo, arquivo_validos, revalidacao, relatorio2,
                   validadores>>

\* validar_dados on the spreadsheet of valid rows that main saved
Revalidar ==
    /\ pc = "fim"
    /\ arquivo_validos.escrito
    /\ revalidacao' = validar_dados(arquivo_validos.linhas, colunas)
    /\ pc' = "revalidado"
    /\ UNCHANGED <<df, colunas, dados_validos, erros, relogio, relatorio,
                   resumo, arquivo_validos, relatorio2, validadores>>

\* gerar_relatorio_erros called once more with the same erros
RelatarDeNovo ==
    /\ pc = "fim"
    /\ relatorio.escrito
    /\ \E agora \in relogio..MaxRelogio :
          /\ relogio' = agora
          /\ relatorio2' = gerar_relatorio_erros(erros, agora)
    /\ pc' = "relatado_de_novo"
    /\ UNCHANGED <<df, colunas, dados_validos, erros, relatorio, resumo,
                   arquivo_validos, revalidacao, validadores>>

Next ==
    \/ ValidarDados
    \/ GerarRelatorio
    \/ SemRelatorio
    \/ SalvarValidos
    \/ NenhumValido
    \/ Revalidar
    \/ RelatarDeNovo

Spec == Init /\ [][Next]_vars

(***************************************************************************)
(* Exercising validar_email_individual on seed texts and their edits.      *)
(***************************************************************************)
AlfabetoEdicao == {"a", "1", "@", ".", "_", "-", "\n", " ", "A"}

SementesEmail ==
    {Nulo,
     Str(<<"a", "@", "b", ".", "c", "o", "m">>),
     Str(<<"a", "@", "b">>),
     Str(<<>>),
     Str(<<" ", " ">>),
     Str(<<"n", "a", "n">>)}

InitEmail ==
    /\ pc = "email"
    /\ email_in \in SementesEmail
    /\ email_out = FALSE
    /\ edicoes = 0
    /\ cpf_in = Nulo
    /\ cpf_out = FALSE
    /\ df = <<>>
    /\ colunas = {}
    /\ dados_validos = <<>>
    /\ erros = <<>>
    /\ relogio = 0
    /\ relatorio = RelatorioVazio
    /\ resumo = <<>>
    /\ arquivo_validos = ArquivoVazio
    /\ revalidacao = ResultadoVazio
    /\ relatorio2 = RelatorioVazio

resto_email == <<cpf_in, cpf_out, email_out, df, colunas, dados_validos,
                 erros, relogio, relatorio, resumo, arquivo_validos,
                 revalidacao, relatorio2>>

\* a character typed into the cell
InserirCaractere ==
    /\ pc = "email" /\ edicoes < MaxEdicoes /\ email_in.t = "str"
    /\ \E i \in 0..Len(email_in.s), c \in AlfabetoEdicao :
          email_in' = Str(SubSeq(email_in.s, 1, i) \o <<c>>
                          \o SubSeq(email_in.s, i + 1, Len(email_in.s)))
    /\ edicoes' = edicoes + 1
    /\ UNCHANGED <<pc, resto_email>>

\* a character of the cell overwritten
SubstituirCaractere ==
    /\ pc = "email" /\ edicoes < MaxEdicoes /\ email_in.t = "str"
    /\ \E i \in 1..Len(email_in.s), c \in AlfabetoEdicao :
          email_in' = Str([email_in.s EXCEPT ![i] = c])
    /\ edicoes' = edicoes + 1
    /\ UNCHANGED <<pc, resto_email>>

\* a character of the cell deleted
RemoverCaractere ==
    /\ pc = "email" /\ edicoes < MaxEdicoes /\ email_in.t = "str"
    /\ \E i \in 1..Len(email_in.s) :
          email_in' = Str(SubSeq(email_in.s, 1, i - 1)
                          \o SubSeq(email_in.s, i + 1, Len(email_in.s)))
    /\ edicoes' = edicoes + 1
    /\ UNCHANGED <<pc, resto_email>>

ValidarEmail ==
    /\ pc = "email"
    /\ email_out' = validar_email_individual(email_in)
    /\ pc' = "email_validado"
    /\ UNCHANGED <<cpf_in, cpf_out, email_in, edicoes, df, colunas,
                   dados_validos, erros, relogio, relatorio, resumo,
                   arquivo_validos, revalidacao, relatorio2>>

NextEmail ==
    \/ InserirCaractere
    \/ SubstituirCaractere
    \/ RemoverCaractere
    \/ ValidarEmail

SpecEmail == InitEmail /\ [][NextEmail]_vars

(***************************************************************************)
(* Claims about the validators.                                            *)
(***************************************************************************)
\* the numbers of the digit characters of a text, other characters dropped
DigitosDe(s) ==
    LET ds == SelectSeq(s, LAMBDA c : c \in Digitos)
    IN  [i \in 1..Len(ds) |-> int(ds[i])]

\* sum of digit[i] * (L + 1 - i), i = 0..L-1, for L = 9 and L = 10
SomaPonderada9(d) ==
    10 * d[1] + 9 * d[2] + 8 * d[3] + 7 * d[4] + 6 * d[5] + 5 * d[6]
        + 4 * d[7] + 3 * d[8] + 2 * d[9]
SomaPonderada10(d) ==
    11 * d[1] + 10 * d[2] + 9 * d[3] + 8 * d[4] + 7 * d[5] + 6 * d[6]
        + 5 * d[7] + 4 * d[8] + 3 * d[9] + 2 * d[10]
DigitoEsperado(soma) == IF soma % 11 < 2 THEN 0 ELSE 11 - (soma % 11)

CpfAceitavel(cpf) ==
    /\ cpf.t = "str"
    /\ LET d == DigitosDe(cpf.s)
       IN  /\ Len(d) = 11
           /\ \E i \in 1..11 : d[i] # d[1]
           /\ d[10] = DigitoEsperado(SomaPonderada9(d))
           /\ d[11] = DigitoEsperado(SomaPonderada10(d))

\* C3: validar_cpf_individual returns TRUE exactly when the input, with its
\* non-digit characters removed, has 11 digits that are not all identical
\* and whose 10th and 11th digits are the check digits of the first 9 and
\* of the first 10 digits; it always returns a boolean, and it rejects the
\* eleven-fold repetition of each digit 0..9.
C3_CpfAceitoSseDigitosConferem ==
    pc = "cpf_validado" =>
        /\ cpf_out \in BOOLEAN
        /\ cpf_out <=> CpfAceitavel(cpf_in)
        /\ (cpf_in.t = "str" /\ so_digitos(cpf_in.s) \in Repetidos) => ~cpf_out

\* the punctuated id of the specification is accepted
C3_Witness ==
    /\ pc = "cpf_validado"
    /\ cpf_out
    /\ cpf_in = Str(pontuado(texto(<<1, 1, 1, 4, 4, 4, 7, 7, 7, 3, 5>>)))

\* the ids obtained from an id by replacing one of its first nine digits
\* by a different digit
Mutacoes(cpf) ==
    LET d == so_digitos(cpf.s)
    IN  {[d EXCEPT ![p] = c] : p \in 1..9, c \in Digitos} \ {d}

MutacoesRejeitadas(cpf) ==
    {m \in Mutacoes(cpf) : ~validar_cpf_individual(Str(m))}

\* C9: for every accepted id, more than 10/11 of its (position,
\* replacement) mutations of a non-check digit are rejected; the ratio over
\* all (id, position, replacement) cases is a mean of these per-id ratios.
C9_MutacaoDetectada ==
    (pc = "cpf_validado" /\ cpf_out) =>
        /\ Cardinality(Mutacoes(cpf_in)) = 81
        /\ 11 * Cardinality(MutacoesRejeitadas(cpf_in))
               > 10 * Cardinality(Mutacoes(cpf_in))

\* an accepted id one of whose mutations is accepted too, among rejected ones
C9_Witness ==
    /\ pc = "cpf_validado"
    /\ cpf_out
    /\ MutacoesRejeitadas(cpf_in) # {}
    /\ MutacoesRejeitadas(cpf_in) # Mutacoes(cpf_in)

\* the text, whole, is local part, '@', domain, '.', final label
EmailConforme(s) ==
    \E arroba \in 1..Len(s), ponto \in 1..Len(s) :
        /\ arroba >= 2
        /\ \A k \in 1..(arroba - 1) : s[k] \in ClasseLocal
        /\ s[arroba] = "@"
        /\ ponto >= arroba + 2
        /\ \A k \in (arroba + 1)..(ponto - 1) : s[k] \in ClasseDominio
        /\ s[ponto] = "."
        /\ Len(s) >= ponto + 2
        /\ \A k \in (ponto + 1)..Len(s) : s[k] \in Letras

\* C10: validar_email_individual rejects null, empty and whitespace-only
\* input and otherwise accepts exactly the texts that, from the first to the
\* last character, are local part, '@', domain, '.', alphabetic label of at
\* least two letters.
C10_EmailAceitoSseConforme ==
    pc = "email_validado" =>
        (email_out <=> (email_in.t = "str" /\ EmailConforme(email_in.s)))

(***************************************************************************)
(* Claims about validar_dados, the report and the summary.                 *)
(***************************************************************************)
AposValidar ==
    pc \in {"validado", "relatado", "fim", "revalidado", "relatado_de_novo"}

\* the row indices named by some retained failure
LinhasComFalha == {erros[k].index.n : k \in 1..Len(erros)}

\* C1: after validar_dados, the valid rows are exactly the input rows, in
\* their original order, whose row index is in no retained failure, and
\* the number of valid rows plus the number of distinct row indices in the
\* failures is the number of input rows.
C1_Particao ==
    AposValidar =>
        /\ \A k \in 1..Len(dados_validos) :
              /\ dados_validos[k].index \in 0..(Len(df) - 1)
              /\ dados_validos[k].index \notin LinhasComFalha
              /\ dados_validos[k].reg \in
                    {df[dados_validos[k].index + 1],
                     coagir_frame(df, colunas)[dados_validos[k].index + 1]}
        /\ \A k \in 1..(Len(dados_validos) - 1) :
              dados_validos[k].index < dados_validos[k + 1].index
        /\ \A i \in 0..(Len(df) - 1) :
              i \notin LinhasComFalha =>
                  \E k \in 1..Len(dados_validos) : dados_validos[k].index = i
        /\ Len(dados_validos) + Cardinality(LinhasComFalha) = Len(df)

\* a sheet of two rows, the first with a failure, the second valid
C1_Witness ==
    /\ pc = "fim"
    /\ Len(df) = 2
    /\ LinhasComFalha = {0}
    /\ Len(dados_validos) = 1
    /\ dados_validos[1].index = 1

\* whether a cell breaks the rule of its column: null, not convertible to
\* the column's type, or failing one of the column's checks
viola(col, v) ==
    \/ isna(v)
    \/ ~coercivel(col.dtype, v)
    \/ \E k \in 1..Len(col.checks) :
          ~check_ok(col.checks[k], coagir(col.dtype, v))

\* C2: every cell that breaks the rule of its column has a failure entry
\* for its row and column, whatever the other rows, columns and checks do.
C2_Exaustiva ==
    AposValidar =>
        \A i \in 1..Len(df), c \in 1..Len(schema) :
            (schema[c].name \in colunas /\ viola(schema[c], df[i][schema[c].name]))
                => \E k \in 1..Len(erros) :
                      /\ erros[k].index = Num(i - 1)
                      /\ erros[k].column = schema[c].name

\* C4: when a column of the schema is missing from the sheet the run ends
\* with no valid or invalid rows handed over and with neither the file of
\* valid rows nor the report written.
C4_ColunaAusenteFatal ==
    (pc = "fim" /\ colunas # Campos) =>
        /\ dados_validos = <<>>
        /\ erros = <<>>
        /\ ~arquivo_validos.escrito
        /\ ~relatorio.escrito

\* C5: validating the valid rows of a run again gives no failure and the
\* same rows as valid.
C5_Idempotente ==
    pc = "revalidado" =>
        /\ revalidacao.erros = <<>>
        /\ Len(revalidacao.validos) = Len(dados_validos)

\* the rank of failure j among the failures of its row
PostoNaLinha(j) ==
    Cardinality({i \in 1..j : erros[i].index = erros[j].index})

\* C6: the report has one section per row index of the failures, in
\* ascending order, headed by the index plus 2; a section lists the
\* failures of its row in the order they have in the failures sequence,
\* each with field, label and, only when it is not null, the value.
C6_RelatorioAgrupado ==
    relatorio.escrito =>
        LET S == relatorio.secoes
        IN  /\ \A k \in 1..(Len(S) - 1) : S[k].linha < S[k + 1].linha
            /\ {S[k].linha : k \in 1..Len(S)} = {i + 2 : i \in LinhasComFalha}
            /\ \A k \in 1..Len(S) :
                  Len(S[k].itens) =
                      Cardinality({j \in 1..Len(erros) :
                                      erros[j].index.n + 2 = S[k].linha})
            /\ \A j \in 1..Len(erros) :
                  \E k \in 1..Len(S) :
                      /\ S[k].linha = erros[j].index.n + 2
                      /\ PostoNaLinha(j) <= Len(S[k].itens)
                      /\ LET item == S[k].itens[PostoNaLinha(j)]
                         IN  /\ item.campo = erros[j].column
                             /\ item.erro = erros[j].check
                             /\ item.valor =
                                   IF erros[j].failure_case.t = "nulo"
                                   THEN <<>>
                                   ELSE <<erros[j].failure_case>>

\* a report of two sections, one of them with two failures, with a value
\* shown for one failure and none for another
C6_Witness ==
    /\ relatorio.escrito
    /\ Len(relatorio.secoes) = 2
    /\ \E k \in 1..2 : Len(relatorio.secoes[k].itens) >= 2
    /\ \E k \in 1..2 : \E m \in 1..Len(relatorio.secoes[k].itens) :
          relatorio.secoes[k].itens[m].valor = <<>>
    /\ \E k \in 1..2 : \E m \in 1..Len(relatorio.secoes[k].itens) :
          relatorio.secoes[k].itens[m].valor # <<>>

\* the position of a field in the schema
PosicaoNoSchema(campo) == CHOOSE k \in 1..Len(schema) : schema[k].name = campo

FalhasDoCampo(campo) == {j \in 1..Len(erros) : erros[j].column = campo}

\* C7 as stated: the summary is sorted by descending count, and fields with
\* the same count come in the order of the schema.
C7_ResumoDesempateSchema ==
    relatorio.escrito =>
        \A k \in 1..(Len(resumo) - 1) :
            \/ resumo[k].quantidade > resumo[k + 1].quantidade
            \/ /\ resumo[k].quantidade = resumo[k + 1].quantidade
               /\ PosicaoNoSchema(resumo[k].campo)
                     < PosicaoNoSchema(resumo[k + 1].campo)

\* C7 as amended: the summary has one entry per field with a failure, with
\* the number of failures of the field, sorted by descending count; the
\* order of fields with the same count is not fixed.
C7_ResumoDecrescente ==
    relatorio.escrito =>
        /\ \A k \in 1..(Len(resumo) - 1) :
              resumo[k].quantidade >= resumo[k + 1].quantidade
        /\ \A k \in 1..Len(resumo) :
              resumo[k].quantidade = Cardinality(FalhasDoCampo(resumo[k].campo))
        /\ \A j \in 1..Len(erros) :
              \E k \in 1..Len(resumo) : resumo[k].campo = erros[j].column
        /\ \A k, m \in 1..Len(resumo) :
              resumo[k].campo = resumo[m].campo => k = m

\* a summary with fields of different counts and fields of the same count
C7_Witness ==
    /\ relatorio.escrito
    /\ \E k \in 1..(Len(resumo) - 1) :
          resumo[k].quantidade > resumo[k + 1].quantidade
    /\ \E k \in 1..(Len(resumo) - 1) :
          resumo[k].quantidade = resumo[k + 1].quantidade

\* C8 as stated: two reports written from the same failures are identical.
C8_RelatorioIdentico ==
    relatorio2.escrito => relatorio2 = relatorio

\* C8 as amended: two reports written from the same failures are identical
\* except for the time in the header, which is the clock reading made when
\* the report is written.
C8_RelatorioIgualSalvoHora ==
    relatorio2.escrito =>
        /\ [relatorio2 EXCEPT !.data_hora = relatorio.data_hora] = relatorio
        /\ relatorio2.data_hora = relogio
        /\ relatorio.data_hora <= relatorio2.data_hora

\* two reports of the same failures written at different times
C8_Witness ==
    /\ relatorio2.escrito
    /\ relatorio2.secoes # <<>>
    /\ relatorio2.data_hora # relatorio.data_hora

=============================================================================
